---- MODULE Spec2Model ----
(***************************************************************************)
(* Model of the Data Manager of Rusteam/dm2.                               *)
(*                                                                         *)
(*   DataView (Table.js 36-229): loadMore / isItemLoaded over the paginated *)
(*   data store of the current view.                                       *)
(*   DataManager (Table.js 287-621): event bus, action registry, mode,      *)
(*   initApp / reload / destroy lifecycle, embedded editor (LSF).          *)
(*                                                                         *)
(* The data store, the application state tree (AppStore), createApp and    *)
(* LSFWrapper are imported by the source and modelled at their interface.  *)
(***************************************************************************)
EXTENDS Integers, Sequences, FiniteSets, TLC

VARIABLES
  \* ---- paginated data store of the current view (view.dataStore)
  items,          \* fetched records, in fetch order (dataStore.list, l.26)
  total,          \* total reported by the last settled fetch (l.27)
  loading,        \* a fetch is in flight (l.58)
  hasNextPage,    \* the store expects a further page (l.58, l.66)
  backendTotal,   \* number of records the backend holds, -1 until first reported
  inFlight,       \* page requests issued and not yet answered
  requests,       \* page requests issued so far
  lastLoadMore,   \* the last loadMore() call: the state it saw, what it did
  lastIsLoaded,   \* the last isItemLoaded(data, index) call and its result
  \* ---- DataManager
  store,          \* this.store (l.301): 0 is null, g > 0 the tree of initApp run g
  started,        \* number of initApp runs started so far (l.387, l.614)
  pending,        \* initApp runs awaiting createApp (l.547)
  completed,      \* initApp runs whose createApp resolved (l.547)
  destroyed,      \* application state trees torn down by destroy() (l.603)
  storeActions,   \* ids in the action list of the tree this.store refers to
  storeMode,      \* mode of the tree this.store refers to
  regAtStart,     \* per initApp run: ids in this.actions when it started
  instruments,    \* this.instruments (l.346): name -> instance
  mode,           \* this.mode (l.310)
  callbacks,      \* this.callbacks (l.326): event name -> handlers, in
                  \* insertion order
  actions,        \* this.actions (l.332): id -> {action, callback}
  readyCount,     \* per initApp run: number of invoke('ready') calls it made
  lastOp,         \* the last DataManager call: arguments, outcome, events fired
  \* ---- embedded editor
  lsf,            \* this.lsf (l.295): 0 is null or undefined, e > 0 the e-th
                  \* LSFWrapper constructed
  built,          \* number of LSFWrapper instances constructed so far
  live,           \* LSFWrapper instances constructed and not destroyed
  lsfTask,        \* this.lsf.task: task loaded in the held editor
  selTask,        \* store.taskStore.selected
  selAnn          \* store.annotationStore.selected

viewVars == <<items, total, loading, hasNextPage, backendTotal, inFlight,
              requests, lastLoadMore, lastIsLoaded>>
lifeVars == <<store, started, pending, completed, destroyed, storeMode,
              readyCount>>
regVars == <<actions, storeActions, regAtStart, instruments>>
busVars == <<mode, callbacks, lastOp>>
lsfVars == <<lsf, built, live, lsfTask, selTask, selAnn>>
vars == <<viewVars, lifeVars, regVars, busVars, lsfVars>>

----------------------------------------------------------------------------
\* Bounds of the model

PageSize == 2
MaxTotal == 5
MaxRequests == 5
MaxInits == 2
MaxEditors == 2

----------------------------------------------------------------------------
\* Paginated data store and DataView.loadMore

NoCall == [called |-> FALSE, hasNextPage |-> FALSE, loading |-> FALSE,
           calledFetch |-> FALSE, threw |-> FALSE]

Min(a, b) == IF a < b THEN a ELSE b

\* a fetch that issues a page request whether or not one is in flight
FetchUnguarded ==
  /\ loading' = TRUE
  /\ inFlight' = inFlight + 1
  /\ requests' = requests + 1
  /\ UNCHANGED <<items, total, hasNextPage, backendTotal>>

\* dataStore.fetch: a no-op while a fetch is in flight, else one page request
Fetch ==
  IF loading
    THEN UNCHANGED <<items, total, loading, hasNextPage, backendTotal,
                     inFlight, requests>>
    ELSE /\ loading' = TRUE
         /\ inFlight' = inFlight + 1
         /\ requests' = requests + 1
         /\ UNCHANGED <<items, total, hasNextPage, backendTotal>>

\* the early-return condition of loadMore
LoadMoreReturns == ~hasNextPage /\ loading

LoadMore ==
  /\ requests < MaxRequests
  /\ IF LoadMoreReturns
       THEN /\ lastLoadMore' = [called |-> TRUE, hasNextPage |-> hasNextPage,
                                loading |-> loading, calledFetch |-> FALSE,
                                threw |-> FALSE]
            /\ UNCHANGED <<items, total, loading, hasNextPage, backendTotal,
                           inFlight, requests>>
       ELSE /\ lastLoadMore' = [called |-> TRUE, hasNextPage |-> hasNextPage,
                                loading |-> loading, calledFetch |-> TRUE,
                                threw |-> FALSE]
            /\ Fetch
  /\ UNCHANGED <<lastIsLoaded, lifeVars, regVars, busVars, lsfVars>>

\* the page request is answered: the records are appended in response order
FetchSucceeds ==
  /\ inFlight > 0
  /\ \E t \in (IF backendTotal < 0 THEN 0..MaxTotal ELSE {backendTotal}) :
       LET n == Min(PageSize, t - Len(items))
           page == [i \in 1..n |-> Len(items) + i]
       IN /\ items' = items \o page
          /\ total' = t
          /\ backendTotal' = t
          /\ hasNextPage' = (Len(items) + n < t)
  /\ inFlight' = inFlight - 1
  /\ loading' = FALSE
  /\ UNCHANGED <<requests, lastLoadMore, lastIsLoaded>>
  /\ UNCHANGED <<lifeVars, regVars, busVars, lsfVars>>

\* the page request fails: the window is left as it was
FetchFails ==
  /\ inFlight > 0
  /\ inFlight' = inFlight - 1
  /\ loading' = FALSE
  /\ UNCHANGED <<items, total, hasNextPage, backendTotal, requests,
                 lastLoadMore, lastIsLoaded>>
  /\ UNCHANGED <<lifeVars, regVars, busVars, lsfVars>>

NoLoadedCall == [called |-> FALSE, index |-> 0, length |-> 0,
                 hasNextPage |-> FALSE, result |-> FALSE]

\* an isItemLoaded that reads the row one place too far
rowExistsOffByOne(data, index) == index \in DOMAIN data

\* !!data[index]: index counts from 0, the records are objects
rowExists(data, index) == (index + 1) \in DOMAIN data

\* isItemLoaded(data, index)
isItemLoaded(data, index) == ~hasNextPage \/ rowExists(data, index)

\* the virtualised list asks whether row index is loaded
IsItemLoaded(index) ==
  /\ lastIsLoaded' = [called |-> TRUE, index |-> index, length |-> Len(items),
                      hasNextPage |-> hasNextPage,
                      result |-> isItemLoaded(items, index)]
  /\ UNCHANGED <<items, total, loading, hasNextPage, backendTotal, inFlight,
                 requests, lastLoadMore>>
  /\ UNCHANGED <<lifeVars, regVars, busVars, lsfVars>>

----------------------------------------------------------------------------
\* DataManager: values

EventNames == {"ready", "modeChanged"}
Handlers == {"cb", "bad"}
\* host handlers that throw when called
Throwing == {"bad"}
Modes == {"explorer", "labelstream"}
ModeArgs == Modes \cup {"other"}
ActionIds == {"x", "y"}
ActionCallbacks == {"f", "g"}
TaskIds == {"t1", "t2"}
NoTask == "none"
Undefined == "undefined"
Null == "null"
AnnIds == {"a2"}

EmptyMap == [k \in {} |-> <<>>]

MapSet(m, k, v) == [x \in DOMAIN m \cup {k} |-> IF x = k THEN v ELSE m[x]]

\* a delete that removes nothing
MapDeleteNothing(m, k) == m

\* Map.delete
MapDelete(m, k) == [x \in DOMAIN m \ {k} |-> m[x]]

Range(s) == {s[i] : i \in DOMAIN s}

\* Set.add on an insertion-ordered set
SetAdd(s, h) == IF h \in Range(s) THEN s ELSE Append(s, h)

\* Set.delete on an insertion-ordered set
SetDelete(s, h) == SelectSeq(s, LAMBDA x : x # h)

NoOp == [op |-> "none", arg |-> <<>>, prev |-> <<>>, threw |-> FALSE,
         fired |-> <<>>, calls |-> <<>>]

----------------------------------------------------------------------------
\* DataManager: event bus

getEventCallbacks(eventName) ==
  IF eventName \in DOMAIN callbacks THEN callbacks[eventName] ELSE <<>>

\* Set.forEach(callback => callback.apply(this, args)): the handlers called,
\* in insertion order, up to and including the first one that throws
Called(hs) ==
  LET firstThrow == {i \in DOMAIN hs : hs[i] \in Throwing /\
                       \A j \in 1..(i - 1) : hs[j] \notin Throwing}
  IN IF firstThrow = {} THEN hs
     ELSE SubSeq(hs, 1, CHOOSE i \in firstThrow : TRUE)

\* one invoke(eventName, args) made while this.store is st
invoke(eventName, args, st) ==
  LET hs == getEventCallbacks(eventName)
  IN [name |-> eventName, args |-> args, handlers |-> hs,
      called |-> Called(hs), threw |-> Range(Called(hs)) \cap Throwing # {},
      store |-> st]

On(eventName, callback) ==
  /\ callbacks' = MapSet(callbacks, eventName,
                         SetAdd(getEventCallbacks(eventName), callback))
  /\ lastOp' = [NoOp EXCEPT !.op = "on", !.arg = <<eventName, callback>>,
                            !.prev = callbacks]
  /\ UNCHANGED <<mode, viewVars, lifeVars, regVars, lsfVars>>

\* off(eventName, callback): callback is Undefined when omitted
Off(eventName, callback) ==
  /\ callbacks' =
       IF eventName \notin DOMAIN callbacks THEN callbacks
       ELSE IF callback # Undefined
         THEN [callbacks EXCEPT ![eventName] = SetDelete(@, callback)]
         ELSE [callbacks EXCEPT ![eventName] = <<>>]
  /\ lastOp' = [NoOp EXCEPT !.op = "off", !.arg = <<eventName, callback>>,
                            !.prev = callbacks]
  /\ UNCHANGED <<mode, viewVars, lifeVars, regVars, lsfVars>>

\* a hasHandler that only looks for the event's entry in the map
hasHandlerEntry(eventName) == eventName \in DOMAIN callbacks

\* this.getEventCallbacks(eventName).size > 0
hasHandler(eventName) == Len(getEventCallbacks(eventName)) > 0

Invoke(eventName) ==
  /\ lastOp' = [NoOp EXCEPT !.op = "invoke", !.arg = <<eventName, "args">>,
                            !.fired = <<invoke(eventName, "args", store)>>]
  /\ UNCHANGED <<mode, callbacks, viewVars, lifeVars, regVars, lsfVars>>

\* setMode(m): this.store.setMode throws a TypeError while this.store is null
SetMode(m) ==
  /\ mode' = m
  /\ storeMode' = IF store = 0 THEN storeMode ELSE m
  /\ lastOp' = [NoOp EXCEPT !.op = "setMode", !.arg = m, !.prev = mode,
                            !.threw = (store = 0),
                            !.fired = IF store # 0 /\ m # mode
                                        THEN <<invoke("modeChanged", m, store)>>
                                        ELSE <<>>]
  /\ UNCHANGED <<callbacks, store, started, pending, completed, destroyed,
                 readyCount, viewVars, regVars, lsfVars>>

----------------------------------------------------------------------------
\* DataManager: lifecycle

\* initApp fires ready twice
InitAppReadyTwice(g) == <<invoke("ready", "dm", g), invoke("ready", "dm", g)>>

\* initApp, after the await: this.store = <tree g>; this.invoke('ready', [this])
InitAppReady(g) == <<invoke("ready", "dm", g)>>

\* createApp of run g resolves with a new application state tree
ResolveInitApp(g) ==
  /\ g \in pending
  /\ pending' = pending \ {g}
  /\ completed' = completed \cup {g}
  /\ store' = g
  /\ storeMode' = mode
  /\ storeActions' = {}
  /\ selTask' = NoTask
  /\ selAnn' = Undefined
  /\ readyCount' = [readyCount EXCEPT ![g] = @ + Len(InitAppReady(g))]
  /\ lastOp' = [NoOp EXCEPT !.op = "initApp", !.arg = g, !.prev = store,
                            !.fired = InitAppReady(g)]
  /\ UNCHANGED <<started, destroyed, actions, regAtStart, instruments, mode,
                 callbacks,
                 lsf, built, live, lsfTask, viewVars>>

\* createApp of run g rejects: initApp ends without assigning or firing
RejectInitApp(g) ==
  /\ g \in pending
  /\ pending' = pending \ {g}
  /\ lastOp' = [NoOp EXCEPT !.op = "initApp", !.arg = g, !.prev = store,
                            !.threw = TRUE]
  /\ UNCHANGED <<store, started, completed, destroyed, storeMode, readyCount,
                 regVars, mode, callbacks, lsfVars, viewVars>>

\* initApp up to its await: createApp is called and the run is suspended
StartInitApp ==
  /\ started' = started + 1
  /\ pending' = pending \cup {started + 1}
  /\ regAtStart' = [regAtStart EXCEPT ![started + 1] = DOMAIN actions]

\* initApp() called by the host
InitApp ==
  /\ started < MaxInits
  /\ StartInitApp
  /\ lastOp' = [NoOp EXCEPT !.op = "initAppCall", !.arg = started + 1]
  /\ UNCHANGED <<store, completed, destroyed, storeMode, readyCount, actions,
                 storeActions, instruments, mode, callbacks, lsfVars,
                 viewVars>>

\* the callbacks left by destroy(detachCallbacks)
DestroyCallbacks(detachCallbacks) ==
  IF detachCallbacks THEN EmptyMap ELSE callbacks

\* the trees torn down once destroy() has run
DestroyStore == IF store # 0 THEN destroyed \cup {store} ELSE destroyed

Destroy(detachCallbacks) ==
  /\ destroyed' = DestroyStore
  /\ callbacks' = DestroyCallbacks(detachCallbacks)
  /\ lastOp' = [NoOp EXCEPT !.op = "destroy", !.arg = detachCallbacks,
                            !.prev = callbacks]
  /\ UNCHANGED <<store, started, pending, completed, storeMode, readyCount,
                 regVars, mode, lsfVars, viewVars>>

\* installActions: every registered action goes through addAction again,
\* which re-sets the same entry and calls this.store.addActions
InstallActionsThrows == DOMAIN actions # {} /\ store = 0

InstallActions ==
  storeActions' = IF store = 0 THEN storeActions
                  ELSE storeActions \cup DOMAIN actions

\* reload(): destroy(false); initApp(); installActions()
Reload ==
  /\ started < MaxInits
  /\ destroyed' = DestroyStore
  /\ callbacks' = DestroyCallbacks(FALSE)
  /\ StartInitApp
  /\ InstallActions
  /\ lastOp' = [NoOp EXCEPT !.op = "reload", !.arg = started + 1,
                            !.prev = callbacks,
                            !.threw = InstallActionsThrows]
  /\ UNCHANGED <<store, completed, storeMode, readyCount, actions,
                 instruments, mode, lsfVars, viewVars>>

----------------------------------------------------------------------------
\* DataManager: action registry

getAction(id) == IF id \in DOMAIN actions THEN actions[id].callback ELSE Undefined

\* an addAction that never rejects an action for its id
MissingIdNever(id) == FALSE

\* !id
MissingId(id) == id = Undefined

\* addAction(action, callback) with action.id = id (Undefined when missing):
\* throws on a missing id; else sets the entry and calls
\* this.store.addActions, a TypeError while this.store is null
AddAction(id, callback) ==
  /\ actions' = IF MissingId(id) THEN actions
                ELSE MapSet(actions, id,
                            [action |-> [id |-> id], callback |-> callback])
  /\ storeActions' = IF MissingId(id) \/ store = 0 THEN storeActions
                     ELSE storeActions \cup {id}
  /\ lastOp' = [NoOp EXCEPT !.op = "addAction", !.arg = <<id, callback>>,
                            !.prev = actions,
                            !.threw = (MissingId(id) \/ store = 0),
                            !.calls = IF MissingId(id) \/ store = 0 THEN <<>>
                                      ELSE <<<<"addActions", id>>>>]
  /\ UNCHANGED <<regAtStart, instruments, lifeVars, mode, callbacks, lsfVars,
                 viewVars>>

RemoveAction(id) ==
  /\ actions' = MapDelete(actions, id)
  /\ storeActions' = IF store = 0 THEN storeActions
                     ELSE storeActions \ {id}
  /\ lastOp' = [NoOp EXCEPT !.op = "removeAction", !.arg = id,
                            !.prev = actions, !.threw = (store = 0)]
  /\ UNCHANGED <<regAtStart, instruments, lifeVars, mode, callbacks, lsfVars,
                 viewVars>>

----------------------------------------------------------------------------
\* DataManager: instrument registry

\* the built-in instruments imported from Toolbar/instruments
BuiltinInstruments == {"columns", "filters"}
InstrumentNames == {"columns", "custom", "extra"}
Initializers == {"i1", "i2"}

\* a registerInstrument that lets built-in names be overridden
ReservedNever(name) == FALSE

\* instruments[name]
Reserved(name) == name \in BuiltinInstruments

\* registerInstrument(name, initializer): warns and returns on a built-in
\* name; else stores initializer({store, observer, inject}) under name and
\* calls this.store.updateInstruments, a TypeError while this.store is null
RegisterInstrument(name, initializer) ==
  /\ instruments' = IF Reserved(name) THEN instruments
                    ELSE MapSet(instruments, name,
                                [by |-> initializer, store |-> store])
  /\ lastOp' = [NoOp EXCEPT !.op = "registerInstrument",
                            !.arg = <<name, initializer>>,
                            !.prev = instruments,
                            !.threw = (~Reserved(name) /\ store = 0),
                            !.calls =
                              IF Reserved(name) THEN <<>>
                              ELSE <<<<"initializer", initializer>>>> \o
                                   (IF store = 0 THEN <<>>
                                    ELSE <<<<"updateInstruments", store>>>>)]
  /\ UNCHANGED <<actions, storeActions, regAtStart, lifeVars, mode, callbacks,
                 lsfVars, viewVars>>

----------------------------------------------------------------------------
\* DataManager: embedded editor

\* task.lastAnnotation?.id
LastAnnotationId(task) == IF task = "t1" THEN "a1" ELSE Undefined

\* the selections of the application state tree change
SelectTask(task) ==
  /\ store # 0
  /\ selTask' = task
  /\ UNCHANGED <<selAnn, lsf, built, live, lsfTask, lifeVars, regVars, busVars,
                 viewVars>>

SelectAnnotation(annotation) ==
  /\ store # 0
  /\ selAnn' = annotation
  /\ UNCHANGED <<selTask, lsf, built, live, lsfTask, lifeVars, regVars,
                 busVars, viewVars>>

\* an initLSF that constructs an editor on every call
NoEditorAlways == TRUE

\* !this.lsf
NoEditor == lsf = 0

\* initLSF(element): reading this.store.taskStore throws while store is null
InitLSF ==
  /\ NoEditor => built < MaxEditors
  /\ IF store # 0 /\ NoEditor
       THEN /\ built' = built + 1
            /\ lsf' = built + 1
            /\ live' = live \cup {built + 1}
            /\ lsfTask' = selTask
       ELSE UNCHANGED <<built, lsf, live, lsfTask>>
  /\ lastOp' = [NoOp EXCEPT !.op = "initLSF", !.prev = <<lsf, built>>,
                            !.threw = (store = 0)]
  /\ UNCHANGED <<selTask, selAnn, mode, callbacks, lifeVars, regVars,
                 viewVars>>

\* this.lsf?.destroy()
DestroyedByDestroyLSF == IF lsf # 0 THEN {lsf} ELSE {}

DestroyLSF ==
  /\ live' = live \ DestroyedByDestroyLSF
  /\ lsf' = 0
  /\ lsfTask' = NoTask
  /\ lastOp' = [NoOp EXCEPT !.op = "destroyLSF", !.prev = <<lsf, built>>]
  /\ UNCHANGED <<built, selTask, selAnn, mode, callbacks, lifeVars, regVars,
                 viewVars>>

\* a startLabeling without the early return
AlreadySelectedNever == FALSE

\* this.lsf?.task && task && this.lsf.task.id === task.id
AlreadySelected ==
  lsf # 0 /\ lsfTask # NoTask /\ selTask # NoTask /\ lsfTask = selTask

\* !isLabelStream && this.lsf && (this.lsf.task?.id !== task?.id ||
\* annotation !== undefined)
WantsLoadTask ==
  mode # "labelstream" /\ lsf # 0 /\ (lsfTask # selTask \/ selAnn # Undefined)

\* annotation?.id ?? task.lastAnnotation?.id, then task.id: a TypeError when
\* no task is selected
LoadTaskThrows == selTask = NoTask

AnnotationID == IF selAnn \in AnnIds THEN selAnn ELSE LastAnnotationId(selTask)

StartLabeling ==
  /\ IF store # 0 /\ ~AlreadySelected /\ WantsLoadTask /\ ~LoadTaskThrows
       THEN /\ lsfTask' = selTask
            /\ lastOp' = [NoOp EXCEPT !.op = "startLabeling",
                            !.arg = <<selTask, selAnn>>,
                            !.prev = <<mode, lsf, lsfTask>>,
                            !.calls = <<<<"loadTask", selTask, AnnotationID>>>>]
       ELSE /\ lsfTask' = lsfTask
            /\ lastOp' = [NoOp EXCEPT !.op = "startLabeling",
                            !.arg = <<selTask, selAnn>>,
                            !.prev = <<mode, lsf, lsfTask>>,
                            !.threw = \/ store = 0
                                      \/ /\ ~AlreadySelected
                                         /\ WantsLoadTask
                                         /\ LoadTaskThrows]
  /\ UNCHANGED <<lsf, built, live, selTask, selAnn, mode, callbacks, lifeVars,
                 regVars, viewVars>>

----------------------------------------------------------------------------
\* Initial state: the DataManager constructor has run (its initApp is
\* awaiting createApp) and the view's data store has fetched nothing yet

Init ==
  /\ items = <<>>
  /\ total = 0
  /\ loading = FALSE
  /\ hasNextPage = TRUE
  /\ backendTotal = -1
  /\ inFlight = 0
  /\ requests = 0
  /\ lastLoadMore = NoCall
  /\ lastIsLoaded = NoLoadedCall
  /\ store = 0
  /\ started = 1
  /\ pending = {1}
  /\ completed = {}
  /\ destroyed = {}
  /\ storeMode = "none"
  /\ readyCount = [g \in 1..MaxInits |-> 0]
  /\ actions = EmptyMap
  /\ storeActions = {}
  /\ regAtStart = [g \in 1..MaxInits |-> {}]
  /\ instruments = EmptyMap
  /\ mode = "explorer"
  /\ callbacks = EmptyMap
  /\ lastOp = NoOp
  /\ lsf = 0
  /\ built = 0
  /\ live = {}
  /\ lsfTask = NoTask
  /\ selTask = NoTask
  /\ selAnn = Undefined

\* the table over the data store of the current view
NextView ==
  \/ LoadMore
  \/ FetchSucceeds
  \/ FetchFails
  \/ \E i \in 0..(MaxTotal + 1) : IsItemLoaded(i)

\* event bus, mode and lifecycle
NextEvents ==
  \/ \E n \in EventNames, h \in Handlers : On(n, h)
  \/ \E n \in EventNames, h \in Handlers \cup {Undefined} : Off(n, h)
  \/ \E n \in EventNames : Invoke(n)
  \/ \E m \in ModeArgs : SetMode(m)
  \/ \E g \in 1..MaxInits : ResolveInitApp(g)
  \/ \E g \in 1..MaxInits : RejectInitApp(g)
  \/ InitApp
  \/ \E d \in BOOLEAN : Destroy(d)
  \/ Reload

\* action registry and lifecycle
NextActions ==
  \/ \E id \in ActionIds \cup {Undefined}, f \in ActionCallbacks :
        AddAction(id, f)
  \/ \E id \in ActionIds : RemoveAction(id)
  \/ \E g \in 1..MaxInits : ResolveInitApp(g)
  \/ Destroy(TRUE)
  \/ Reload

\* embedded editor
NextLSF ==
  \/ \E g \in 1..MaxInits : ResolveInitApp(g)
  \/ \E m \in ModeArgs : SetMode(m)
  \/ \E t \in TaskIds \cup {NoTask} : SelectTask(t)
  \/ \E a \in AnnIds \cup {Undefined, Null} : SelectAnnotation(a)
  \/ InitLSF
  \/ StartLabeling
  \/ DestroyLSF

\* instrument registry
NextInstruments ==
  \/ \E n \in InstrumentNames, i \in Initializers : RegisterInstrument(n, i)
  \/ \E g \in 1..MaxInits : ResolveInitApp(g)
  \/ Reload

\* The parts share no state but this.store and this.mode, so each is
\* explored with the operations that read or write its own state.
Next == NextView \/ NextEvents \/ NextActions \/ NextLSF \/ NextInstruments

SpecView == Init /\ [][NextView]_vars
SpecEvents == Init /\ [][NextEvents]_vars
SpecActions == Init /\ [][NextActions]_vars
SpecLSF == Init /\ [][NextLSF]_vars
SpecInstruments == Init /\ [][NextInstruments]_vars
Spec == Init /\ [][Next]_vars

----------------------------------------------------------------------------
\* Properties

NoDuplicates(s) == \A i, j \in DOMAIN s : s[i] = s[j] => i = j

\* C1: loadMore() calls dataStore.fetch only when hasNextPage is true and
\* loading is false; in every other state it returns without calling fetch
\* and without throwing.
C1_LoadMoreGuard ==
  lastLoadMore.called =>
    /\ lastLoadMore.calledFetch =>
         (lastLoadMore.hasNextPage /\ ~lastLoadMore.loading)
    /\ ~lastLoadMore.threw

\* C2: a loadMore() made while the fetch of an earlier loadMore() is still in
\* flight issues no second page request: at most one request is in flight,
\* and one is in flight exactly while the store is loading.
C2_OneRequestInFlight ==
  /\ inFlight <= 1
  /\ loading <=> inFlight = 1

\* a second loadMore() was made while the first fetch was in flight, it went
\* on to call fetch, and still only one request is out
C2_Witness ==
  /\ lastLoadMore.called
  /\ lastLoadMore.loading
  /\ lastLoadMore.hasNextPage
  /\ lastLoadMore.calledFetch
  /\ inFlight = 1
  /\ requests = 1

\* C3: a setMode call whose argument differs from the current mode delivers
\* exactly one modeChanged event carrying the new mode; a call whose argument
\* equals the current mode delivers none and leaves the mode unchanged.
C3_SetModeEvents ==
  lastOp.op = "setMode" =>
    IF lastOp.arg # lastOp.prev
      THEN /\ Len(lastOp.fired) = 1
           /\ lastOp.fired[1].name = "modeChanged"
           /\ lastOp.fired[1].args = lastOp.arg
           /\ mode = lastOp.arg
      ELSE /\ lastOp.fired = <<>>
           /\ mode = lastOp.prev

\* C4: when one of several handlers registered for an event throws, every
\* handler registered after it is still called: each invoke calls all the
\* handlers registered for its event.
C4_FaultIsolation ==
  \A i \in DOMAIN lastOp.fired :
    lastOp.fired[i].called = lastOp.fired[i].handlers

\* C5: addAction with an id already present in the registry fails with an
\* error and leaves the existing entry of that id unchanged (stated for a
\* manager whose application state tree exists).
C5_DuplicateIdRejected ==
  (lastOp.op = "addAction" /\ store # 0 /\
   lastOp.arg[1] \in DOMAIN lastOp.prev) =>
    /\ lastOp.threw
    /\ actions[lastOp.arg[1]] = lastOp.prev[lastOp.arg[1]]

\* C6: once the initApp started by reload() has completed, every action that
\* was registered before the reload (and not removed since) is in the action
\* list of the new application state tree (stated for a reload of a manager
\* whose earlier tree existed).
C6_ReloadReinstallsActions ==
  (lastOp.op = "initApp" /\ ~lastOp.threw /\ store = lastOp.arg /\
   lastOp.prev # 0) =>
    (regAtStart[lastOp.arg] \cap DOMAIN actions) \subseteq storeActions

\* C7: ready is fired exactly once for each initApp run that completed and
\* never for a run that has not: the completing run fires it once, after its
\* tree has been assigned to this.store, and calls no handler twice; reload()
\* starts exactly one new run; no other operation of the manager fires ready.
C7_ReadyOncePerInitApp ==
  /\ \A g \in 1..MaxInits :
       readyCount[g] = IF g \in completed THEN 1 ELSE 0
  /\ (lastOp.op = "initApp" /\ ~lastOp.threw) =>
       /\ Len(lastOp.fired) = 1
       /\ lastOp.fired[1].name = "ready"
       /\ lastOp.fired[1].store = lastOp.arg
       /\ store = lastOp.arg
       /\ NoDuplicates(lastOp.fired[1].called)
  /\ lastOp.op = "reload" =>
       (lastOp.arg = started /\ lastOp.arg \in pending)
  /\ lastOp.op \notin {"initApp", "invoke"} =>
       \A i \in DOMAIN lastOp.fired : lastOp.fired[i].name # "ready"

\* the initApp started by a reload has completed after the constructor's,
\* and its ready reached a subscribed handler
C7_Witness ==
  /\ lastOp.op = "initApp"
  /\ lastOp.arg = 2
  /\ lastOp.prev = 1
  /\ completed = {1, 2}
  /\ readyCount[1] = 1
  /\ readyCount[2] = 1
  /\ lastOp.fired[1].called # <<>>

\* destroy(false) and reload() leave every subscription as it was;
\* destroy(true) leaves no subscription of any event name
DestroyFrame ==
  /\ (lastOp.op = "destroy" /\ lastOp.arg = FALSE) => callbacks = lastOp.prev
  /\ lastOp.op = "reload" => callbacks = lastOp.prev
  /\ (lastOp.op = "destroy" /\ lastOp.arg = TRUE) =>
       \A n \in EventNames : getEventCallbacks(n) = <<>>

\* C8: destroy(false), and so reload(), leaves every subscription unchanged,
\* so that every handler subscribed to ready is called again when the initApp
\* run that follows the first one completes; destroy(true) removes every
\* subscription of every event name.
C8_SubscriptionsAcrossReload ==
  /\ DestroyFrame
  /\ (lastOp.op = "initApp" /\ ~lastOp.threw /\ lastOp.arg > 1 /\
      lastOp.prev # 0) =>
       \A h \in Range(getEventCallbacks("ready")) :
         h \in Range(lastOp.fired[1].called)

\* C9: at most one editor instance is held and alive at any time; an initLSF
\* that returns leaves an editor held, constructs one exactly when none was
\* held, and otherwise leaves the held instance as it was.
C9_SingleEditor ==
  /\ Cardinality(live) <= 1
  /\ live = (IF lsf = 0 THEN {} ELSE {lsf})
  /\ (lastOp.op = "initLSF" /\ ~lastOp.threw) =>
       /\ lsf # 0
       /\ lastOp.prev[1] # 0 => (lsf = lastOp.prev[1] /\ built = lastOp.prev[2])
       /\ lastOp.prev[1] = 0 => (lsf = built /\ built = lastOp.prev[2] + 1)

\* initLSF was repeated on the second editor, built after a destroyLSF
C9_Witness ==
  /\ lastOp.op = "initLSF"
  /\ ~lastOp.threw
  /\ lastOp.prev = <<2, 2>>
  /\ lsf = 2
  /\ live = {2}

\* the annotation id startLabeling passes to loadTask
C10_AnnotationId(task, annotation) ==
  IF annotation \in AnnIds THEN annotation ELSE LastAnnotationId(task)

\* C10 as stated, for a selected task: loadTask(taskId, annotationId) is
\* issued exactly when the mode is not labelstream, an editor exists, and
\* either the selected task differs from the editor's task or an annotation
\* is selected.
C10_Original ==
  (lastOp.op = "startLabeling" /\ lastOp.arg[1] # NoTask) =>
    LET task == lastOp.arg[1]
        annotation == lastOp.arg[2]
    IN /\ lastOp.calls # <<>> <=>
            /\ lastOp.prev[1] # "labelstream"
            /\ lastOp.prev[2] # 0
            /\ (task # lastOp.prev[3] \/ annotation \in AnnIds)
       /\ lastOp.calls # <<>> =>
            lastOp.calls = <<<<"loadTask", task,
                               C10_AnnotationId(task, annotation)>>>>

\* C10 amended: loadTask(taskId, annotationId) is issued exactly when the mode
\* is not labelstream, an editor exists, a task is selected and it differs
\* from the editor's task; the same task is a no-op whatever annotation is
\* selected. annotationId is the selected annotation's id, else the task's
\* last annotation id.
C10_StartLabeling ==
  lastOp.op = "startLabeling" =>
    LET task == lastOp.arg[1]
        annotation == lastOp.arg[2]
    IN /\ lastOp.calls # <<>> <=>
            /\ lastOp.prev[1] # "labelstream"
            /\ lastOp.prev[2] # 0
            /\ task # NoTask
            /\ task # lastOp.prev[3]
       /\ lastOp.calls # <<>> =>
            /\ lastOp.calls = <<<<"loadTask", task,
                                  C10_AnnotationId(task, annotation)>>>>
            /\ lsfTask = task

\* with the editor on t2 and no annotation selected, startLabeling loaded t1
\* with the task's last annotation
C10_Witness ==
  /\ lastOp.op = "startLabeling"
  /\ lastOp.prev = <<"explorer", 1, "t2">>
  /\ lastOp.arg = <<"t1", Undefined>>
  /\ lastOp.calls = <<<<"loadTask", "t1", "a1">>>>


\* C11: isItemLoaded(i) is true for every i below items.length, true for
\* every i when hasNextPage is false, and false for i = items.length (and
\* beyond) whenever hasNextPage is true.
C11_IsItemLoaded ==
  lastIsLoaded.called =>
    /\ lastIsLoaded.index < lastIsLoaded.length => lastIsLoaded.result
    /\ ~lastIsLoaded.hasNextPage => lastIsLoaded.result
    /\ (lastIsLoaded.hasNextPage /\ lastIsLoaded.index >= lastIsLoaded.length)
         => ~lastIsLoaded.result

\* with two pages loaded and a third expected, the first row that is not
\* there yet was reported as not loaded
C11_Witness ==
  /\ lastIsLoaded.called
  /\ lastIsLoaded.hasNextPage
  /\ lastIsLoaded.length = 2 * PageSize
  /\ lastIsLoaded.index = lastIsLoaded.length
  /\ ~lastIsLoaded.result


\* C12: addAction with an action that has no id fails with an error at the
\* call site, leaves the action registry as it was and makes no addActions
\* call on the application state tree.
C12_MissingIdRejected ==
  (lastOp.op = "addAction" /\ lastOp.arg[1] = Undefined) =>
    /\ lastOp.threw
    /\ actions = lastOp.prev
    /\ Undefined \notin DOMAIN actions
    /\ lastOp.calls = <<>>

\* an action without id was refused by a manager that has a tree and a
\* registered action
C12_Witness ==
  /\ lastOp.op = "addAction"
  /\ lastOp.arg[1] = Undefined
  /\ lastOp.threw
  /\ store # 0
  /\ DOMAIN actions = {"x"}
  /\ storeActions = {"x"}


\* what getAction returns right after addAction and after removeAction
C13_Result ==
  /\ (lastOp.op = "addAction" /\ lastOp.arg[1] # Undefined) =>
       getAction(lastOp.arg[1]) = lastOp.arg[2]
  /\ lastOp.op = "removeAction" => getAction(lastOp.arg) = Undefined

\* getAction(id) changes only in an addAction or a removeAction for that id
C13_Persists ==
  \A id \in ActionIds :
    getAction(id)' # getAction(id) =>
      \/ lastOp'.op = "addAction" /\ lastOp'.arg[1] = id
      \/ lastOp'.op = "removeAction" /\ lastOp'.arg = id

\* C13: after addAction({id: x}, cb), getAction(x) returns cb and keeps
\* returning it across every operation (reload included) other than a
\* removeAction(x) or another addAction for x; after removeAction(x),
\* getAction(x) returns no callback.
C13_GetAction == [](C13_Result) /\ [][C13_Persists]_vars

\* the callback registered before a reload is still returned once the
\* initApp of the reload has completed
C13_Witness ==
  /\ lastOp.op = "initApp"
  /\ lastOp.arg = 2
  /\ regAtStart[2] = {"x"}
  /\ getAction("x") = "f"
  /\ getAction("y") = Undefined


\* C14: registerInstrument with a built-in instrument name leaves the
\* instrument registry unchanged, does not call the initializer and lets no
\* exception escape; with any other name it calls the initializer exactly
\* once and stores the resulting instance under that name, leaving the other
\* names as they were.
C14_RegisterInstrument ==
  lastOp.op = "registerInstrument" =>
    LET name == lastOp.arg[1]
        initializer == lastOp.arg[2]
        made == {i \in DOMAIN lastOp.calls : lastOp.calls[i][1] = "initializer"}
    IN IF name \in BuiltinInstruments
         THEN /\ instruments = lastOp.prev
              /\ made = {}
              /\ ~lastOp.threw
         ELSE /\ Cardinality(made) = 1
              /\ \A i \in made : lastOp.calls[i][2] = initializer
              /\ name \in DOMAIN instruments
              /\ instruments[name].by = initializer
              /\ \A n \in DOMAIN lastOp.prev \ {name} :
                   n \in DOMAIN instruments /\ instruments[n] = lastOp.prev[n]
              /\ DOMAIN instruments = DOMAIN lastOp.prev \cup {name}

\* a built-in name was refused by a manager that holds a custom instrument
C14_Witness ==
  /\ lastOp.op = "registerInstrument"
  /\ lastOp.arg[1] = "columns"
  /\ DOMAIN instruments = {"custom"}
  /\ instruments = lastOp.prev
  /\ store # 0


\* C15: off(name) without a callback removes every handler of name, so
\* hasHandler(name) is false afterwards and a later invoke(name) calls no
\* handler; off(name, cb) removes only cb; in both cases the handlers of every
\* other event name are unchanged; hasHandler(name) is true exactly when at
\* least one handler is registered for name.
C15_OffAndHasHandler ==
  /\ lastOp.op = "off" =>
       LET name == lastOp.arg[1]
           cb == lastOp.arg[2]
           before(n) == IF n \in DOMAIN lastOp.prev THEN lastOp.prev[n]
                        ELSE <<>>
       IN /\ cb = Undefined =>
               (getEventCallbacks(name) = <<>> /\ ~hasHandler(name))
          /\ cb # Undefined =>
               /\ Range(getEventCallbacks(name)) = Range(before(name)) \ {cb}
               /\ NoDuplicates(getEventCallbacks(name))
          /\ \A n \in EventNames \ {name} : getEventCallbacks(n) = before(n)
  /\ \A n \in EventNames :
       hasHandler(n) <=> Range(getEventCallbacks(n)) # {}
  /\ (lastOp.op = "invoke" /\ ~hasHandler(lastOp.arg[1])) =>
       lastOp.fired[1].called = <<>>

\* off("ready") cleared two handlers of ready and left modeChanged with its own
C15_Witness ==
  /\ lastOp.op = "off"
  /\ lastOp.arg = <<"ready", Undefined>>
  /\ "ready" \in DOMAIN lastOp.prev
  /\ Len(lastOp.prev["ready"]) = 2
  /\ ~hasHandler("ready")
  /\ hasHandler("modeChanged")


\* on(name, cb) with cb already registered for name changes nothing; with a
\* new cb it adds cb after the handlers already registered; the handlers an
\* invoke calls are an initial part of the registered ones, in their order
RegistrationOrder ==
  /\ lastOp.op = "on" =>
       LET name == lastOp.arg[1]
           cb == lastOp.arg[2]
           before == IF name \in DOMAIN lastOp.prev THEN lastOp.prev[name]
                     ELSE <<>>
       IN /\ cb \in Range(before) => getEventCallbacks(name) = before
          /\ cb \notin Range(before) =>
               getEventCallbacks(name) = before \o <<cb>>
  /\ \A n \in EventNames : NoDuplicates(getEventCallbacks(n))
  /\ \A i \in DOMAIN lastOp.fired :
       LET r == lastOp.fired[i]
       IN /\ Len(r.called) <= Len(r.handlers)
          /\ r.called = SubSeq(r.handlers, 1, Len(r.called))

\* C16: invoke(name, args) calls each distinct callback registered for name
\* exactly once, however often on(name, cb) was called with it, and in the
\* order in which the callbacks were registered.
C16_InvokeEachOnce ==
  /\ RegistrationOrder
  /\ lastOp.op = "invoke" =>
       \A h \in Range(getEventCallbacks(lastOp.arg[1])) :
         Cardinality({i \in DOMAIN lastOp.fired[1].called :
                        lastOp.fired[1].called[i] = h}) = 1


\* C17: setMode with a value that is neither "explorer" nor "labelstream"
\* fails with an error, leaves the mode unchanged and delivers no modeChanged
\* event (stated for a manager whose application state tree exists).
C17_InvalidModeRejected ==
  (lastOp.op = "setMode" /\ lastOp.arg \notin Modes /\ store # 0) =>
    /\ lastOp.threw
    /\ mode = lastOp.prev
    /\ lastOp.fired = <<>>

\* C18: once destroy() has been called and nothing has been called since, no
\* new application state tree is installed and no ready event is fired, also
\* when an initApp was still in flight at the destroy.
C18_DestroyedIsFinal ==
  [][lastOp.op = "destroy" =>
       (store' = store /\ readyCount' = readyCount)]_vars

\* C19: when every initApp run started has completed, this.store is the tree
\* created by the run started last, in whichever order the runs resolved.
C19_LatestInitAppWins ==
  (started > 1 /\ pending = {} /\ completed = 1..started) => store = started

\* C20: an addAction that fails leaves the action registry as it was, in
\* every lifecycle state, so that getAction and a later reload do not see
\* the action.
C20_AddActionAllOrNothing ==
  (lastOp.op = "addAction" /\ lastOp.threw) =>
    /\ actions = lastOp.prev
    /\ getAction(lastOp.arg[1]) =
         (IF lastOp.arg[1] \in DOMAIN lastOp.prev
            THEN lastOp.prev[lastOp.arg[1]].callback ELSE Undefined)

====
